---- MODULE Spec2Model ----
(***************************************************************************)
(* A model of the payments engine (nwautomator/payments).                  *)
(*                                                                         *)
(*   input.rs   make_input_record      one CSV row -> Option<InputRecord>  *)
(*   lib.rs     process_csv            rows -> Vec<InputRecord>            *)
(*   output.rs  make_client_output_records                                 *)
(*                                     records -> Vec<OutputRecord>        *)
(*                                                                         *)
(* A CSV field is a sequence of one-character strings.  An Option<T> is a  *)
(* sequence of length at most one: None is <<>>, Some(x) is <<x>>.         *)
(*                                                                         *)
(* An f64 amount is kept as an integer number of units of                  *)
(* 10^-FracDigits.  Each f64 operation is the exact operation followed by  *)
(* Round; in the arithmetic "exact" Round is the identity, in the          *)
(* arithmetic "rounded" it rounds to SigDigits significant digits, half to *)
(* even, as an f64 operation rounds to 53 significant bits.  The f64       *)
(* values +inf, -inf and NaN are the integers Inf, -Inf and NaN, which no  *)
(* finite amount of the model reaches.                                     *)
(***************************************************************************)
EXTENDS Integers, Sequences, FiniteSets, TLC

VARIABLES
    row,      \* validator run: the raw row handed to make_input_record
    vresult,  \* validator run: <<>> before the call, <<r>> after it (r the Option returned)
    arith,    \* "exact" or "rounded": the arithmetic of the amounts
    input,    \* process_csv: the raw rows read so far, in source order
    res,      \* process_csv: `res`, the records pushed so far
    pc,       \* "validate", "read", "failed", "ledger", "panicked" or "done"
    i,        \* make_client_output_records: index of the next record of the for loop
    output,   \* make_client_output_records: the HashMap `output`
    hist,     \* hist[k+1] is `output` after the first k records of the for loop
    result    \* the Vec returned by make_client_output_records

vars == <<row, vresult, arith, input, res, pc, i, output, hist, result>>

----------------------------------------------------------------------------
(* Bounds *)

\* The most rows the reader is given.
MaxRows == 4

\* The fractional digits an amount keeps: one unit is 10^-FracDigits.
FracDigits == 1

\* The significant digits of the arithmetic "rounded".
SigDigits == 1

----------------------------------------------------------------------------
(* Option, characters and strings *)

None == <<>>

Some(x) == <<x>>

Unwrap(o) == o[1]

Digits == <<"0", "1", "2", "3", "4", "5", "6", "7", "8", "9">>

IsDigit(c) == \E k \in 1..10 : Digits[k] = c

DigitVal(c) == (CHOOSE k \in 1..10 : Digits[k] = c) - 1

Upper == <<"A", "B", "C", "D", "E", "F", "G", "H", "I", "J", "K", "L", "M",
           "N", "O", "P", "Q", "R", "S", "T", "U", "V", "W", "X", "Y", "Z">>

Lower == <<"a", "b", "c", "d", "e", "f", "g", "h", "i", "j", "k", "l", "m",
           "n", "o", "p", "q", "r", "s", "t", "u", "v", "w", "x", "y", "z">>

LowerChar(c) ==
    IF \E k \in 1..26 : Upper[k] = c
    THEN Lower[CHOOSE k \in 1..26 : Upper[k] = c]
    ELSE c

\* str::to_lowercase
ToLowercase(s) == [k \in 1..Len(s) |-> LowerChar(s[k])]

IsSpace(c) == c \in {" ", "\t"}

RECURSIVE TrimStart(_)
TrimStart(s) ==
    IF Len(s) > 0 /\ IsSpace(s[1]) THEN TrimStart(Tail(s)) ELSE s

RECURSIVE TrimEnd(_)
TrimEnd(s) ==
    IF Len(s) > 0 /\ IsSpace(s[Len(s)])
    THEN TrimEnd(SubSeq(s, 1, Len(s) - 1))
    ELSE s

\* StringRecord::trim: leading and trailing whitespace leaves every field.
Trim(r) == [k \in 1..Len(r) |-> TrimEnd(TrimStart(r[k]))]

\* StringRecord::get(n), n counted from 0.
Get(r, n) == IF n + 1 <= Len(r) THEN Some(r[n + 1]) ELSE None

----------------------------------------------------------------------------
(* Parsing of the numeric fields *)

RECURSIVE StripZeros(_)
StripZeros(s) ==
    IF Len(s) > 1 /\ s[1] = "0" THEN StripZeros(Tail(s)) ELSE s

\* a <= b for two numerals without leading zeros.
NumeralLE(a, b) ==
    \/ Len(a) < Len(b)
    \/ /\ Len(a) = Len(b)
       /\ \/ a = b
          \/ \E k \in 1..Len(a) :
                /\ \A j \in 1..(k - 1) : a[j] = b[j]
                /\ DigitVal(a[k]) < DigitVal(b[k])

RECURSIVE NumeralValue(_)
NumeralValue(s) ==
    IF Len(s) = 0 THEN 0
    ELSE 10 * NumeralValue(SubSeq(s, 1, Len(s) - 1)) + DigitVal(s[Len(s)])

U16Max == <<"6", "5", "5", "3", "5">>

U32Max == <<"4", "2", "9", "4", "9", "6", "7", "2", "9", "5">>

\* str::parse for an unsigned integer type whose greatest value is the
\* numeral max: an optional "+", then one or more digits, the value at most
\* max.  The value is returned as its numeral without leading zeros.
ParseUnsigned(s, max) ==
    LET body == IF Len(s) > 0 /\ s[1] = "+" THEN Tail(s) ELSE s
    IN  IF /\ Len(body) > 0
           /\ \A k \in 1..Len(body) : IsDigit(body[k])
           /\ NumeralLE(StripZeros(body), max)
        THEN Some(StripZeros(body))
        ELSE None

\* s.parse::<u16>(): the client identifier, an integer.
ParseU16(s) ==
    LET p == ParseUnsigned(s, U16Max)
    IN  IF p = None THEN None ELSE Some(NumeralValue(Unwrap(p)))

\* s.parse::<u32>(): the transaction identifier.  A u32 does not fit the
\* integers of the model checker, so the value is kept as its numeral.
ParseU32(s) == ParseUnsigned(s, U32Max)

RECURSIVE Pow10(_)
Pow10(n) == IF n = 0 THEN 1 ELSE 10 * Pow10(n - 1)

Abs(x) == IF x < 0 THEN 0 - x ELSE x

\* The least e >= 0 with m < 10^(SigDigits + e).
RECURSIVE RoundExp(_, _)
RoundExp(m, e) == IF m < Pow10(SigDigits + e) THEN e ELSE RoundExp(m, e + 1)

\* Rounding to SigDigits significant digits, half to even.
RoundSig(x) ==
    LET m    == Abs(x)
        e    == RoundExp(m, 0)
        p    == Pow10(e)
        q    == m \div p
        r    == m % p
        up   == 2 * r > p \/ (2 * r = p /\ q % 2 = 1)
        mag  == (IF up THEN q + 1 ELSE q) * p
    IN  IF x < 0 THEN 0 - mag ELSE mag

\* The result of one f64 operation whose exact result is x.
Round(mode, x) == IF mode = "exact" THEN x ELSE RoundSig(x)

\* The f64 values that are not finite.
Inf == Pow10(9)

NaN == 2 * Pow10(9)

IsFinite(x) == Abs(x) < Inf

\* x + y in f64: NaN if either is NaN or they are infinities of opposite
\* sign, an infinity if one is, the rounded sum otherwise.
FAdd(mode, x, y) ==
    IF x = NaN \/ y = NaN THEN NaN
    ELSE IF ~IsFinite(x) /\ ~IsFinite(y) THEN (IF x = y THEN x ELSE NaN)
    ELSE IF ~IsFinite(x) THEN x
    ELSE IF ~IsFinite(y) THEN y
    ELSE Round(mode, x + y)

\* x - y in f64.
FSub(mode, x, y) == FAdd(mode, x, IF y = NaN THEN NaN ELSE 0 - y)

\* x <= y in f64: false when either is NaN.
FLe(x, y) == x # NaN /\ y # NaN /\ x <= y

W_inf      == <<"i", "n", "f">>
W_infinity == <<"i", "n", "f", "i", "n", "i", "t", "y">>
W_nan      == <<"n", "a", "n">>

\* The index of the first "." of s, or Len(s) + 1.
PointAt(s) ==
    IF \E k \in 1..Len(s) : s[k] = "."
    THEN CHOOSE k \in 1..Len(s) : s[k] = "." /\ \A j \in 1..(k - 1) : s[j] # "."
    ELSE Len(s) + 1

\* s.parse::<f64>(): an optional sign, then inf, infinity or nan in either
\* case, or digits, an optional point and digits with at least one digit in
\* all.  A finite value is in units of 10^-FracDigits; the fields of the
\* model have at most FracDigits fractional digits and no exponent.
ParseF64(mode, s) ==
    LET signed == Len(s) > 0 /\ s[1] \in {"+", "-"}
        minus  == signed /\ s[1] = "-"
        body   == IF signed THEN Tail(s) ELSE s
        pt     == PointAt(body)
        whole  == SubSeq(body, 1, pt - 1)
        frac   == SubSeq(body, pt + 1, Len(body))
        mag    == NumeralValue(whole) * Pow10(FracDigits)
                    + NumeralValue(frac) * Pow10(FracDigits - Len(frac))
    IN  IF ToLowercase(body) \in {W_inf, W_infinity}
        THEN Some(IF minus THEN 0 - Inf ELSE Inf)
        ELSE IF ToLowercase(body) = W_nan
        THEN Some(NaN)
        ELSE IF /\ Len(whole) + Len(frac) > 0
                /\ \A k \in 1..Len(whole) : IsDigit(whole[k])
                /\ \A k \in 1..Len(frac) : IsDigit(frac[k])
                /\ Len(frac) <= FracDigits
        THEN Some(Round(mode, IF minus THEN 0 - mag ELSE mag))
        ELSE None

----------------------------------------------------------------------------
(* input.rs: make_input_record *)

W_deposit    == <<"d", "e", "p", "o", "s", "i", "t">>
W_withdrawal == <<"w", "i", "t", "h", "d", "r", "a", "w", "a", "l">>
W_dispute    == <<"d", "i", "s", "p", "u", "t", "e">>
W_resolve    == <<"r", "e", "s", "o", "l", "v", "e">>
W_chargeback == <<"c", "h", "a", "r", "g", "e", "b", "a", "c", "k">>

\* enum TransactionType
TransactionType == {"Deposit", "Withdrawal", "Dispute", "Resolve", "Chargeback"}

NoAmountTypes == {"Dispute", "Resolve", "Chargeback"}

\* The first match of make_input_record: the type of field 0.
ParseType(r) ==
    IF Get(r, 0) = None THEN None
    ELSE LET s == ToLowercase(Unwrap(Get(r, 0)))
         IN  IF s = W_deposit THEN Some("Deposit")
             ELSE IF s = W_withdrawal THEN Some("Withdrawal")
             ELSE IF s = W_dispute THEN Some("Dispute")
             ELSE IF s = W_resolve THEN Some("Resolve")
             ELSE IF s = W_chargeback THEN Some("Chargeback")
             ELSE None

\* The last match of make_input_record taking an absent or unparsable
\* amount as None for every type.
ParseAmount_AmountOptional(mode, r, type) ==
    LET parsed == IF Get(r, 3) = None THEN None
                  ELSE ParseF64(mode, Unwrap(Get(r, 3)))
    IN  IF parsed # None THEN Some(parsed) ELSE Some(None)

\* The last match of make_input_record: Some(Some(a)), Some(None) or, for
\* `return None`, None.
ParseAmount(mode, r, type) ==
    LET parsed == IF Get(r, 3) = None THEN None
                  ELSE ParseF64(mode, Unwrap(Get(r, 3)))
    IN  IF parsed # None THEN Some(parsed)
        ELSE IF type \in NoAmountTypes THEN Some(None)
        ELSE None

InputRecord(type, client, tx, amount) ==
    [type |-> type, client |-> client, tx |-> tx, amount |-> amount]

\* make_input_record without its check of the number of columns.
make_input_record_AnyLength(mode, r) ==
    LET type == ParseType(r)
        client_id == IF Get(r, 1) = None THEN None ELSE ParseU16(Unwrap(Get(r, 1)))
        transaction_id == IF Get(r, 2) = None THEN None ELSE ParseU32(Unwrap(Get(r, 2)))
    IN  IF type = None \/ client_id = None \/ transaction_id = None THEN None
        ELSE LET amount == ParseAmount(mode, r, Unwrap(type))
             IN  IF amount = None THEN None
                 ELSE Some(InputRecord(Unwrap(type), Unwrap(client_id),
                                       Unwrap(transaction_id), Unwrap(amount)))

make_input_record(mode, r) ==
    LET type == ParseType(r)
    IN  IF type = None THEN None
        ELSE IF Len(r) # 4 THEN None
        ELSE LET client_id == IF Get(r, 1) = None THEN None
                              ELSE ParseU16(Unwrap(Get(r, 1)))
             IN  IF client_id = None THEN None
                 ELSE LET transaction_id == IF Get(r, 2) = None THEN None
                                            ELSE ParseU32(Unwrap(Get(r, 2)))
                      IN  IF transaction_id = None THEN None
                          ELSE LET amount == ParseAmount(mode, r, Unwrap(type))
                               IN  IF amount = None THEN None
                                   ELSE Some(InputRecord(Unwrap(type),
                                                         Unwrap(client_id),
                                                         Unwrap(transaction_id),
                                                         Unwrap(amount)))

----------------------------------------------------------------------------
(* output.rs: the ledger *)

\* OutputRecord::new
OutputRecordNew(client, available, held, total, locked) ==
    [client |-> client, available |-> available, held |-> held,
     total |-> total, locked |-> locked]

\* HashMap::insert
Insert(out, key, value) ==
    [k \in (DOMAIN out) \cup {key} |-> IF k = key THEN value ELSE out[k]]

\* The records that get_transaction_amount returns from: the client and the
\* transaction match and the amount is present.
AmountAt(records, client, transaction_id, k) ==
    /\ records[k].client = client
    /\ records[k].tx = transaction_id
    /\ records[k].amount # None

\* get_transaction_amount comparing the transaction only, not the client.
get_transaction_amount_AnyClient(records, client, transaction_id) ==
    LET at(k) == records[k].tx = transaction_id /\ records[k].amount # None
    IN  IF \E k \in 1..Len(records) : at(k)
        THEN records[CHOOSE k \in 1..Len(records) :
                        at(k) /\ \A j \in 1..(k - 1) : ~at(j)].amount
        ELSE None

get_transaction_amount(records, client, transaction_id) ==
    IF \E k \in 1..Len(records) : AmountAt(records, client, transaction_id, k)
    THEN records[CHOOSE k \in 1..Len(records) :
                    /\ AmountAt(records, client, transaction_id, k)
                    /\ \A j \in 1..(k - 1) :
                          ~AmountAt(records, client, transaction_id, j)].amount
    ELSE None

check_dispute(records, client, transaction_id) ==
    \E k \in 1..Len(records) :
        /\ records[k].type = "Dispute"
        /\ records[k].client = client
        /\ records[k].tx = transaction_id

\* The Deposit arm inserting a fresh record whether or not the account exists.
DepositArm_Overwrites(mode, out, record) ==
    Insert(out, record.client,
           OutputRecordNew(record.client, Unwrap(record.amount), 0,
                           Unwrap(record.amount), FALSE))

\* The arm TransactionType::Deposit.
DepositArm(mode, out, record) ==
    LET c == record.client
        a == Unwrap(record.amount)
    IN  IF c \in DOMAIN out
        THEN [out EXCEPT ![c].available = FAdd(mode, @, a),
                         ![c].total = FAdd(mode, @, a)]
        ELSE Insert(out, c, OutputRecordNew(c, a, 0, a, FALSE))

\* The Withdrawal arm refusing a locked account.
WithdrawalArm_LockedRefuses(mode, out, record) ==
    LET c == record.client
        a == Unwrap(record.amount)
    IN  IF c \in DOMAIN out /\ ~out[c].locked /\ FLe(a, out[c].available)
        THEN [out EXCEPT ![c].available = FSub(mode, @, a),
                         ![c].total = FSub(mode, @, a)]
        ELSE out

\* The Withdrawal arm comparing with < in place of <=.
WithdrawalArm_Strict(mode, out, record) ==
    LET c == record.client
        a == Unwrap(record.amount)
    IN  IF c \in DOMAIN out /\ a < out[c].available
        THEN [out EXCEPT ![c].available = FSub(mode, @, a),
                         ![c].total = FSub(mode, @, a)]
        ELSE out

\* The arm TransactionType::Withdrawal.
WithdrawalArm(mode, out, record) ==
    LET c == record.client
        a == Unwrap(record.amount)
    IN  IF c \in DOMAIN out
        THEN IF FLe(a, out[c].available)
             THEN [out EXCEPT ![c].available = FSub(mode, @, a),
                              ![c].total = FSub(mode, @, a)]
             ELSE out
        ELSE out

\* The Dispute arm creating a default account for a client that has none.
DisputeArm_CreatesAccount(mode, out, record, records) ==
    LET c == record.client
        t == get_transaction_amount(records, c, record.tx)
        o == IF c \in DOMAIN out THEN out
             ELSE Insert(out, c, OutputRecordNew(c, 0, 0, 0, FALSE))
    IN  IF t # None
        THEN [o EXCEPT ![c].available = FSub(mode, @, Unwrap(t)),
                       ![c].held = FAdd(mode, @, Unwrap(t))]
        ELSE o

\* The arm TransactionType::Dispute.
DisputeArm(mode, out, record, records) ==
    LET c == record.client
        t == get_transaction_amount(records, c, record.tx)
    IN  IF c \in DOMAIN out
        THEN IF t # None
             THEN [out EXCEPT ![c].available = FSub(mode, @, Unwrap(t)),
                              ![c].held = FAdd(mode, @, Unwrap(t))]
             ELSE out
        ELSE out

\* The Resolve arm giving the amount back to available and leaving held.
ResolveArm_KeepsHeld(mode, out, record, records) ==
    LET c == record.client
        t == get_transaction_amount(records, c, record.tx)
    IN  IF c \in DOMAIN out /\ t # None /\ check_dispute(records, c, record.tx)
        THEN [out EXCEPT ![c].available = FAdd(mode, @, Unwrap(t))]
        ELSE out

\* The Resolve arm without the call of check_dispute.
ResolveArm_NoDisputeCheck(mode, out, record, records) ==
    LET c == record.client
        t == get_transaction_amount(records, c, record.tx)
    IN  IF c \in DOMAIN out /\ t # None
        THEN [out EXCEPT ![c].available = FAdd(mode, @, Unwrap(t)),
                         ![c].held = FSub(mode, @, Unwrap(t))]
        ELSE out

\* The Resolve arm also clearing the locked flag.
ResolveArm_Unlocks(mode, out, record, records) ==
    LET c == record.client
        t == get_transaction_amount(records, c, record.tx)
    IN  IF c \in DOMAIN out /\ t # None /\ check_dispute(records, c, record.tx)
        THEN [out EXCEPT ![c].available = FAdd(mode, @, Unwrap(t)),
                         ![c].held = FSub(mode, @, Unwrap(t)),
                         ![c].locked = FALSE]
        ELSE out

\* The arm TransactionType::Resolve.
ResolveArm(mode, out, record, records) ==
    LET c == record.client
        t == get_transaction_amount(records, c, record.tx)
    IN  IF c \in DOMAIN out
        THEN IF t # None
             THEN IF check_dispute(records, c, record.tx)
                  THEN [out EXCEPT ![c].available = FAdd(mode, @, Unwrap(t)),
                                   ![c].held = FSub(mode, @, Unwrap(t))]
                  ELSE out
             ELSE out
        ELSE out

\* The Chargeback arm taking the amount from total and leaving held.
ChargebackArm_KeepsHeld(mode, out, record, records) ==
    LET c == record.client
        t == get_transaction_amount(records, c, record.tx)
    IN  IF c \in DOMAIN out /\ t # None
        THEN [out EXCEPT ![c].total = FSub(mode, @, Unwrap(t)),
                         ![c].locked = TRUE]
        ELSE out

\* The Chargeback arm taking the amount from available in place of held.
ChargebackArm_TakesAvailable(mode, out, record, records) ==
    LET c == record.client
        t == get_transaction_amount(records, c, record.tx)
    IN  IF c \in DOMAIN out /\ t # None
        THEN [out EXCEPT ![c].total = FSub(mode, @, Unwrap(t)),
                         ![c].available = FSub(mode, @, Unwrap(t)),
                         ![c].locked = TRUE]
        ELSE out

\* The Chargeback arm asking for a Dispute record, as the Resolve arm does.
ChargebackArm_NeedsDispute(mode, out, record, records) ==
    LET c == record.client
        t == get_transaction_amount(records, c, record.tx)
    IN  IF c \in DOMAIN out /\ t # None /\ check_dispute(records, c, record.tx)
        THEN [out EXCEPT ![c].total = FSub(mode, @, Unwrap(t)),
                         ![c].held = FSub(mode, @, Unwrap(t)),
                         ![c].locked = TRUE]
        ELSE out

\* The arm TransactionType::Chargeback.
ChargebackArm(mode, out, record, records) ==
    LET c == record.client
        t == get_transaction_amount(records, c, record.tx)
    IN  IF c \in DOMAIN out
        THEN IF t # None
             THEN [out EXCEPT ![c].total = FSub(mode, @, Unwrap(t)),
                              ![c].held = FSub(mode, @, Unwrap(t)),
                              ![c].locked = TRUE]
             ELSE out
        ELSE out

\* The body of the for loop of make_client_output_records.
ApplyRecord(mode, out, record, records) ==
    CASE record.type = "Deposit"    -> DepositArm(mode, out, record)
      [] record.type = "Withdrawal" -> WithdrawalArm(mode, out, record)
      [] record.type = "Dispute"    -> DisputeArm(mode, out, record, records)
      [] record.type = "Resolve"    -> ResolveArm(mode, out, record, records)
      [] record.type = "Chargeback" -> ChargebackArm(mode, out, record, records)

\* The for loop of make_client_output_records from record k on.
RECURSIVE RunFrom(_, _, _, _)
RunFrom(mode, out, records, k) ==
    IF k > Len(records) THEN out
    ELSE RunFrom(mode, ApplyRecord(mode, out, records[k], records), records, k + 1)

\* make_client_output_records as a function of its records: the map `output`
\* when the loop ends.
make_client_output_records(mode, records) == RunFrom(mode, <<>>, records, 1)

\* record.amount.unwrap() on None: the Deposit arm unwraps always, the
\* Withdrawal arm once the account exists.
Panics(out, record) ==
    /\ record.amount = None
    /\ \/ record.type = "Deposit"
       \/ record.type = "Withdrawal" /\ record.client \in DOMAIN out

\* The orders in which a HashMap may hand out its keys.
KeyOrders(out) ==
    {f \in [1..Cardinality(DOMAIN out) -> DOMAIN out] :
        \A a, b \in 1..Cardinality(DOMAIN out) : a # b => f[a] # f[b]}

----------------------------------------------------------------------------
(* The rows of the runs *)

\* The rows the reader draws from.  Two clients; client 1 has the
\* transactions 1, 2 and 3; row 2 carries whitespace, capitals, a leading
\* zero and a fraction; row 8 is a dispute that carries an amount; row 10 is
\* a deposit without an amount.
InputRows ==
    { <<W_deposit, <<"1">>, <<"1">>, <<"2">>>>,
      <<<<" ", "D", "e", "p", "o", "s", "i", "t">>, <<"2", " ">>,
        <<"0", "1">>, <<"1", ".", "0">>>>,
      <<W_deposit, <<"1">>, <<"2">>, <<"0", ".", "1">>>>,
      <<W_withdrawal, <<"1">>, <<"3">>, <<"2">>>>,
      <<W_dispute, <<"1">>, <<"1">>, <<>>>>,
      <<W_resolve, <<"1">>, <<"1">>, <<>>>>,
      <<W_chargeback, <<"1">>, <<"1">>, <<>>>>,
      <<W_dispute, <<"1">>, <<"2">>, <<"3">>>>,
      <<W_dispute, <<"+", "2">>, <<"1">>, <<>>>>,
      <<W_deposit, <<"1">>, <<"1">>, <<>>>> }

----------------------------------------------------------------------------
(* lib.rs and main.rs: the run of the program *)

Init ==
    /\ row = <<>>
    /\ vresult = None
    /\ arith = "exact"
    /\ input = <<>>
    /\ res = <<>>
    /\ pc = "read"
    /\ i = 1
    /\ output = <<>>
    /\ hist = <<(<<>>)>>
    /\ result = <<>>

\* The turn of the loop of process_csv giving up at a row that
\* make_input_record does not accept.
ReadRow_StopsAtInvalid ==
    /\ pc = "read"
    /\ Len(input) < MaxRows
    /\ \E r \in InputRows :
          LET made == make_input_record(arith, Trim(r))
          IN  /\ input' = Append(input, r)
              /\ res' = IF made = None THEN res ELSE Append(res, Unwrap(made))
              /\ pc' = IF made = None THEN "failed" ELSE pc
    /\ UNCHANGED <<row, vresult, arith, i, output, hist, result>>

\* One turn of the for loop of process_csv: the row is trimmed and handed
\* to make_input_record; the record is pushed, or the row is reported.
ReadRow ==
    /\ pc = "read"
    /\ Len(input) < MaxRows
    /\ \E r \in InputRows :
          LET made == make_input_record(arith, Trim(r))
          IN  /\ input' = Append(input, r)
              /\ res' = IF made = None THEN res ELSE Append(res, Unwrap(made))
    /\ UNCHANGED <<row, vresult, arith, pc, i, output, hist, result>>

\* `let record = result?`: the reader fails and process_csv returns the error.
StreamError ==
    /\ pc = "read"
    /\ pc' = "failed"
    /\ UNCHANGED <<row, vresult, arith, input, res, i, output, hist, result>>

\* The reader is exhausted: process_csv returns Ok(res) and main hands it to
\* make_client_output_records.
EndOfFile ==
    /\ pc = "read"
    /\ pc' = "ledger"
    /\ UNCHANGED <<row, vresult, arith, input, res, i, output, hist, result>>

\* The turn of the loop looking up in the records up to the present one only.
Step_PrefixLookup ==
    /\ pc = "ledger"
    /\ i <= Len(res)
    /\ IF Panics(output, res[i])
       THEN /\ pc' = "panicked"
            /\ UNCHANGED <<i, output, hist>>
       ELSE /\ output' = ApplyRecord(arith, output, res[i], SubSeq(res, 1, i))
            /\ hist' = Append(hist, output')
            /\ i' = i + 1
            /\ pc' = pc
    /\ UNCHANGED <<row, vresult, arith, input, res, result>>

\* The turn of the loop taking a dispute as closed by the first Resolve or
\* Chargeback applied for its (client, tx): a later Resolve does nothing.
Step_DisputeConsumed ==
    /\ pc = "ledger"
    /\ i <= Len(res)
    /\ IF Panics(output, res[i])
       THEN /\ pc' = "panicked"
            /\ UNCHANGED <<i, output, hist>>
       ELSE /\ output' =
                  IF /\ res[i].type = "Resolve"
                     /\ \E j \in 1..(i - 1) :
                           /\ res[j].type \in {"Resolve", "Chargeback"}
                           /\ res[j].client = res[i].client
                           /\ res[j].tx = res[i].tx
                  THEN output
                  ELSE ApplyRecord(arith, output, res[i], res)
            /\ hist' = Append(hist, output')
            /\ i' = i + 1
            /\ pc' = pc
    /\ UNCHANGED <<row, vresult, arith, input, res, result>>

\* One turn of the for loop of make_client_output_records.
Step ==
    /\ pc = "ledger"
    /\ i <= Len(res)
    /\ IF Panics(output, res[i])
       THEN /\ pc' = "panicked"
            /\ UNCHANGED <<i, output, hist>>
       ELSE /\ output' = ApplyRecord(arith, output, res[i], res)
            /\ hist' = Append(hist, output')
            /\ i' = i + 1
            /\ pc' = pc
    /\ UNCHANGED <<row, vresult, arith, input, res, result>>

\* output.values().cloned().collect()
Collect ==
    /\ pc = "ledger"
    /\ i > Len(res)
    /\ \E f \in KeyOrders(output) :
          result' = [k \in 1..Cardinality(DOMAIN output) |-> output[f[k]]]
    /\ pc' = "done"
    /\ UNCHANGED <<row, vresult, arith, input, res, i, output, hist>>

Next == ReadRow \/ StreamError \/ EndOfFile \/ Step \/ Collect

Spec == Init /\ [][Next]_vars

----------------------------------------------------------------------------
(* The validator on its own: one row, one call of make_input_record *)

TypeFields ==
    { W_deposit,
      <<"D", "e", "p", "o", "s", "i", "t">>,
      <<"W", "I", "T", "H", "D", "R", "A", "W", "A", "L">>,
      W_dispute,
      W_resolve,
      <<"c", "h", "a", "r", "g", "e", "B", "a", "c", "k">>,
      <<"d", "e", "p", "o", "s", "i", "t", "s">>,
      <<"1">>,
      <<>> }

ClientFields ==
    { <<"1">>, <<"0">>, <<"0", "0", "7">>, <<"+", "7">>,
      <<"6", "5", "5", "3", "5">>, <<"6", "5", "5", "3", "6">>,
      <<"-", "1">>, <<"x">>, <<>> }

TxFields ==
    { <<"1">>, <<"4", "2", "9", "4", "9", "6", "7", "2", "9", "5">>,
      <<"4", "2", "9", "4", "9", "6", "7", "2", "9", "6">>,
      <<"1", ".", "5">>, <<>> }

AmountFields ==
    { <<"2">>, <<"1", ".", "5">>, <<".", "5">>, <<"-", "1">>, <<"+", "3">>,
      <<".">>, <<"x">>, <<>>, W_inf, <<"N", "a", "N">> }

FourFieldRows ==
    {<<t, c, x, a>> : t \in TypeFields, c \in ClientFields,
                      x \in TxFields, a \in AmountFields}

\* Rows of 0 to 5 fields.
RawRows ==
    FourFieldRows
      \cup {SubSeq(r, 1, n) : r \in FourFieldRows, n \in 0..3}
      \cup {Append(r, <<"9">>) : r \in FourFieldRows}

InitV ==
    /\ row \in RawRows
    /\ vresult = None
    /\ arith = "exact"
    /\ input = <<>>
    /\ res = <<>>
    /\ pc = "validate"
    /\ i = 1
    /\ output = <<>>
    /\ hist = <<(<<>>)>>
    /\ result = <<>>

\* The call make_input_record(&row).
Validate ==
    /\ pc = "validate"
    /\ vresult = None
    /\ vresult' = Some(make_input_record(arith, row))
    /\ UNCHANGED <<row, arith, input, res, pc, i, output, hist, result>>

NextV == Validate

SpecV == InitV /\ [][NextV]_vars

\* The validator has returned Some(record).
Returned == vresult # None /\ Unwrap(vresult) # None

Made == Unwrap(Unwrap(vresult))

----------------------------------------------------------------------------
(* Claims about the validator *)

\* C2: every record make_input_record returns has its amount present if and
\* only if its type is Deposit or Withdrawal.
C2_AmountIffDepositOrWithdrawal ==
    Returned => (Made.amount # None <=> Made.type \in {"Deposit", "Withdrawal"})

TypeWords ==
    { <<W_deposit, "Deposit">>, <<W_withdrawal, "Withdrawal">>,
      <<W_dispute, "Dispute">>, <<W_resolve, "Resolve">>,
      <<W_chargeback, "Chargeback">> }

\* The type that field 0 of the row names, case-insensitively, if any.
NamedTypes(r) ==
    {w[2] : w \in {v \in TypeWords : Len(r) >= 1 /\ ToLowercase(r[1]) = v[1]}}

\* The conditions of C4 on a row.
C4_Accepted(r) ==
    /\ NamedTypes(r) # {}
    /\ Len(r) = 4
    /\ ParseU16(r[2]) # None
    /\ ParseU32(r[3]) # None
    /\ \/ ParseF64(arith, r[4]) # None
       \/ NamedTypes(r) \subseteq NoAmountTypes

----------------------------------------------------------------------------
(* The run in either arithmetic *)

InitArith ==
    /\ row = <<>>
    /\ vresult = None
    /\ arith \in {"exact", "rounded"}
    /\ input = <<>>
    /\ res = <<>>
    /\ pc = "read"
    /\ i = 1
    /\ output = <<>>
    /\ hist = <<(<<>>)>>
    /\ result = <<>>

SpecArith == InitArith /\ [][Next]_vars

----------------------------------------------------------------------------
(* Claims about the ledger *)

\* The records the for loop has applied are res[1] .. res[Applied]; record k
\* took the map from hist[k] to hist[k + 1].
Applied == Len(hist) - 1

Monetary == {"Deposit", "Withdrawal"}

\* C1: after every prefix of the records every account has
\* total = available + held, in exact arithmetic.
C1_TotalIsAvailablePlusHeld ==
    /\ \A k \in 1..Len(hist) : \A c \in DOMAIN hist[k] :
          hist[k][c].total = hist[k][c].available + hist[k][c].held
    /\ \A c \in DOMAIN output :
          output[c].total = output[c].available + output[c].held
    /\ \A k \in 1..Len(result) :
          result[k].total = result[k].available + result[k].held

\* C1's case: a deposit, a withdrawal, a dispute and a chargeback have all
\* changed one account.
C1_Witness ==
    /\ pc = "done"
    /\ \E c \in DOMAIN output :
          \A t \in {"Deposit", "Withdrawal", "Dispute", "Chargeback"} :
             \E k \in 1..Applied :
                /\ res[k].type = t
                /\ res[k].client = c
                /\ c \in DOMAIN hist[k + 1]
                /\ (c \notin DOMAIN hist[k] \/ hist[k + 1][c] # hist[k][c])

\* C3: when a Dispute, Resolve or Chargeback record changes an account, the
\* amount it moves is the amount of a Deposit or Withdrawal record of the
\* sequence with the same client and tx.
C3_MovedAmountIsOfDepositOrWithdrawal ==
    \A k \in 1..Applied :
        (res[k].type \in NoAmountTypes /\ hist[k + 1] # hist[k]) =>
            \E j \in 1..Len(res) :
                /\ res[j].type \in Monetary
                /\ res[j].client = res[k].client
                /\ res[j].tx = res[k].tx
                /\ Abs(hist[k + 1][res[k].client].held
                         - hist[k][res[k].client].held) = Unwrap(res[j].amount)

\* C5: the returned collection holds exactly one account for each client of
\* a Deposit record and none for any other client; only a Deposit record
\* creates an account.
C5_OneAccountPerDepositor ==
    /\ \A k \in 1..Applied :
          DOMAIN hist[k + 1] # DOMAIN hist[k] => res[k].type = "Deposit"
    /\ pc = "done" =>
          /\ {result[k].client : k \in 1..Len(result)}
                = {res[k].client : k \in {j \in 1..Len(res) : res[j].type = "Deposit"}}
          /\ \A a, b \in 1..Len(result) :
                result[a].client = result[b].client => a = b

\* C5's case: two clients have deposited, and a record of a third kind of
\* a client came before that client's account existed.
C5_Witness ==
    /\ pc = "done"
    /\ Len(result) = 2
    /\ \E k \in 1..Applied :
          res[k].type # "Deposit" /\ res[k].client \notin DOMAIN hist[k]

\* C6: a Deposit for a client without an account creates the account with
\* available = total = amount, held = 0, locked = false; a Deposit for a
\* client with an account adds the amount to available and to total.
C6_Deposit ==
    \A k \in 1..Applied :
        res[k].type = "Deposit" =>
            LET c == res[k].client
                a == Unwrap(res[k].amount)
            IN  IF c \in DOMAIN hist[k]
                THEN /\ hist[k + 1][c].available = hist[k][c].available + a
                     /\ hist[k + 1][c].total = hist[k][c].total + a
                ELSE /\ c \in DOMAIN hist[k + 1]
                     /\ hist[k + 1][c].available = a
                     /\ hist[k + 1][c].total = a
                     /\ hist[k + 1][c].held = 0
                     /\ hist[k + 1][c].locked = FALSE

\* C6's case: a Deposit has been applied to an account that a Chargeback
\* had locked and left with a held other than 0.
C6_Witness ==
    \E k \in 1..Applied :
        /\ res[k].type = "Deposit"
        /\ res[k].client \in DOMAIN hist[k]
        /\ hist[k][res[k].client].locked
        /\ hist[k][res[k].client].held # 0

\* C7: a Withdrawal of more than available leaves the account unchanged; a
\* Withdrawal of at most available takes the amount from available and total.
C7_Withdrawal ==
    \A k \in 1..Applied :
        (res[k].type = "Withdrawal" /\ res[k].client \in DOMAIN hist[k]) =>
            LET c == res[k].client
                a == Unwrap(res[k].amount)
            IN  IF a > hist[k][c].available
                THEN hist[k + 1][c] = hist[k][c]
                ELSE /\ hist[k + 1][c].available = hist[k][c].available - a
                     /\ hist[k + 1][c].total = hist[k][c].total - a

\* C7's case: one Withdrawal took exactly what was available and a later one
\* asked for more than was left.
C7_Witness ==
    \E j, k \in 1..Applied :
        /\ j < k
        /\ res[j].type = "Withdrawal" /\ res[k].type = "Withdrawal"
        /\ res[j].client \in DOMAIN hist[j]
        /\ Unwrap(res[j].amount) = hist[j][res[j].client].available
        /\ res[k].client = res[j].client
        /\ Unwrap(res[k].amount) > hist[k][res[k].client].available

\* Record j is a Dispute and record k a Resolve of the same client and tx,
\* the account exists at the Dispute, and no record between them is of that
\* client.
DisputeThenResolve(j, k) ==
    /\ j < k
    /\ res[j].type = "Dispute"
    /\ res[k].type = "Resolve"
    /\ res[k].client = res[j].client
    /\ res[k].tx = res[j].tx
    /\ res[j].client \in DOMAIN hist[j]
    /\ \A m \in (j + 1)..(k - 1) : res[m].client # res[j].client

\* C8: a Dispute followed by a Resolve for the same (client, tx), with no
\* record of that client in between, leaves available and held as they were
\* before the Dispute.
C8_DisputeResolveRestores ==
    \A j, k \in 1..Applied :
        DisputeThenResolve(j, k) =>
            /\ hist[k + 1][res[j].client].available = hist[j][res[j].client].available
            /\ hist[k + 1][res[j].client].held = hist[j][res[j].client].held

\* C8 as amended: the same, when the additions and subtractions are exact.
C8_DisputeResolveRestoresExact ==
    arith = "exact" => C8_DisputeResolveRestores

\* C8's case: in exact arithmetic a Dispute has moved an amount into held
\* and the Resolve after it has been applied.
C8_Witness ==
    /\ arith = "exact"
    /\ \E j, k \in 1..Applied :
          /\ DisputeThenResolve(j, k)
          /\ hist[j + 1][res[j].client].held # hist[j][res[j].client].held

\* C9: a Chargeback whose account exists and whose lookup succeeds sets
\* locked and takes the amount from total and held, with or without a Dispute
\* record and with or without a Resolve.
C9_Chargeback ==
    \A k \in 1..Applied :
        LET c == res[k].client
            t == get_transaction_amount(res, c, res[k].tx)
        IN  (res[k].type = "Chargeback" /\ c \in DOMAIN hist[k] /\ t # None) =>
                /\ hist[k + 1][c].locked
                /\ hist[k + 1][c].total = hist[k][c].total - Unwrap(t)
                /\ hist[k + 1][c].held = hist[k][c].held - Unwrap(t)

\* C9's case: a Chargeback has been applied for a (client, tx) that no
\* Dispute record of the sequence names.
C9_Witness ==
    \E k \in 1..Applied :
        /\ res[k].type = "Chargeback"
        /\ res[k].client \in DOMAIN hist[k]
        /\ get_transaction_amount(res, res[k].client, res[k].tx) # None
        /\ ~check_dispute(res, res[k].client, res[k].tx)

\* C10: once an account is locked it is locked after every later record.
C10_LockedStaysLocked ==
    \A j, k \in 1..Len(hist) :
        j <= k =>
            \A c \in DOMAIN hist[j] :
                hist[j][c].locked => (c \in DOMAIN hist[k] /\ hist[k][c].locked)

\* C10's case: two records of different kinds have changed an account after
\* a Chargeback locked it.
C10_Witness ==
    \E j \in 1..Applied :
        /\ res[j].type = "Chargeback"
        /\ res[j].client \in DOMAIN hist[j + 1]
        /\ hist[j + 1][res[j].client].locked
        /\ \E k \in (j + 1)..Applied : \E m \in (k + 1)..Applied :
              /\ res[k].client = res[j].client
              /\ res[m].client = res[j].client
              /\ res[k].type # res[m].type
              /\ hist[k + 1] # hist[k]
              /\ hist[m + 1] # hist[m]

\* C11: make_client_output_records works through every sequence of records
\* of the validator without a failing unwrap: a Deposit or Withdrawal record
\* always has its amount, and no turn of the loop panics.
C11_NoPanic ==
    /\ pc # "panicked"
    /\ \A k \in 1..Len(res) : res[k].type \in Monetary => res[k].amount # None
    /\ (pc = "ledger" /\ i <= Len(res)) => ~Panics(output, res[i])

\* C11's case: a deposit row without an amount was read and rejected, and a
\* Deposit and a Withdrawal on an existing account have been applied.
C11_Witness ==
    /\ pc = "done"
    /\ \E k \in 1..Len(input) :
          /\ ParseType(Trim(input[k])) = Some("Deposit")
          /\ make_input_record(arith, Trim(input[k])) = None
    /\ \E k \in 1..Applied :
          res[k].type = "Withdrawal" /\ res[k].client \in DOMAIN hist[k]

\* Record k is for a client that has no account when it is applied.
NoAccount(k) == res[k].client \notin DOMAIN hist[k]

\* Record k is a Dispute, Resolve or Chargeback whose (client, tx) matches no
\* record of the sequence that has an amount.
NoAmountFound(k) ==
    /\ res[k].type \in NoAmountTypes
    /\ \A j \in 1..Len(res) :
          ~(res[j].client = res[k].client /\ res[j].tx = res[k].tx
              /\ res[j].amount # None)

\* Record k is a Resolve whose (client, tx) no Dispute record of the
\* sequence has.
NoDisputeFound(k) ==
    /\ res[k].type = "Resolve"
    /\ \A j \in 1..Len(res) :
          ~(res[j].type = "Dispute" /\ res[j].client = res[k].client
              /\ res[j].tx = res[k].tx)

\* C12: a record whose precondition is not met leaves the whole map as it
\* was: no account for the client (other than a Deposit), no amount found,
\* or, for a Resolve, no Dispute record.
C12_UnmetPreconditionIsNoOp ==
    \A k \in 1..Applied :
        \/ res[k].type # "Deposit" /\ NoAccount(k)
        \/ NoAmountFound(k)
        \/ NoDisputeFound(k)
        => hist[k + 1] = hist[k]

\* C12's case: with an account in the map, a record came for a client
\* without an account, and a Resolve whose amount is found and whose account
\* exists came for a pair without a Dispute record.
C12_Witness ==
    /\ \E k \in 1..Applied :
          res[k].type # "Deposit" /\ NoAccount(k) /\ DOMAIN hist[k] # {}
    /\ \E k \in 1..Applied :
          NoDisputeFound(k) /\ ~NoAccount(k) /\ ~NoAmountFound(k)

\* The map with the locked flag of client c inverted.
FlipLocked(out, c) == [out EXCEPT ![c].locked = ~@]

\* C13: what a record does to available, held and total of an account does
\* not depend on the account's locked flag.
C13_LockedDoesNotGate ==
    \A k \in 1..Applied :
        LET c == res[k].client
            other == ApplyRecord(arith, FlipLocked(hist[k], c), res[k], res)
        IN  c \in DOMAIN hist[k] =>
                /\ other[c].available = hist[k + 1][c].available
                /\ other[c].held = hist[k + 1][c].held
                /\ other[c].total = hist[k + 1][c].total

\* C13's case: a Withdrawal and a record of another kind have each changed
\* the balances of a locked account.
C13_Witness ==
    \E j, k \in 1..Applied :
        /\ res[j].type = "Withdrawal"
        /\ res[k].type # "Withdrawal"
        /\ \A m \in {j, k} :
              /\ res[m].client \in DOMAIN hist[m]
              /\ hist[m][res[m].client].locked
              /\ hist[m + 1][res[m].client] # hist[m][res[m].client]

\* The places of the whole sequence whose record has the client and tx of
\* record k and an amount.
AmountPlaces(k) ==
    {j \in 1..Len(res) :
        res[j].client = res[k].client /\ res[j].tx = res[k].tx
          /\ res[j].amount # None}

\* The places of the whole sequence whose record is a Dispute with the
\* client and tx of record k.
DisputePlaces(k) ==
    {j \in 1..Len(res) :
        res[j].type = "Dispute" /\ res[j].client = res[k].client
          /\ res[j].tx = res[k].tx}

\* The amount at the first of AmountPlaces(k).
FirstAmount(k) ==
    Unwrap(res[CHOOSE j \in AmountPlaces(k) :
                  \A m \in AmountPlaces(k) : j <= m].amount)

\* C14: lookups are over the whole sequence: with the account existing, a
\* Dispute, Resolve or Chargeback takes effect when a record with its
\* (client, tx) and an amount stands anywhere in the sequence, and for a
\* Resolve when a Dispute record for the pair stands anywhere in it, also
\* later than the record itself.
C14_LookupOverWholeSequence ==
    \A k \in 1..Applied :
        LET c == res[k].client
        IN  (res[k].type \in NoAmountTypes /\ c \in DOMAIN hist[k]
               /\ AmountPlaces(k) # {}
               /\ (res[k].type = "Resolve" => DisputePlaces(k) # {})) =>
              CASE res[k].type = "Dispute" ->
                     /\ hist[k + 1][c].available = hist[k][c].available - FirstAmount(k)
                     /\ hist[k + 1][c].held = hist[k][c].held + FirstAmount(k)
                [] res[k].type = "Resolve" ->
                     /\ hist[k + 1][c].available = hist[k][c].available + FirstAmount(k)
                     /\ hist[k + 1][c].held = hist[k][c].held - FirstAmount(k)
                [] res[k].type = "Chargeback" ->
                     /\ hist[k + 1][c].total = hist[k][c].total - FirstAmount(k)
                     /\ hist[k + 1][c].held = hist[k][c].held - FirstAmount(k)
                     /\ hist[k + 1][c].locked

\* C14's case: a Resolve has changed an account although every record with
\* its (client, tx) and an amount, and every Dispute record for the pair,
\* comes later in the sequence.
C14_Witness ==
    \E k \in 1..Applied :
        /\ res[k].type = "Resolve"
        /\ res[k].client \in DOMAIN hist[k]
        /\ AmountPlaces(k) # {}
        /\ DisputePlaces(k) # {}
        /\ \A j \in AmountPlaces(k) \cup DisputePlaces(k) : j > k
        /\ hist[k + 1] # hist[k]

\* C15: whether a pair is disputed is a matter of a Dispute record existing
\* and is never used up: every Resolve with an account, an amount found and
\* a Dispute record in the sequence adds the amount to available and takes
\* it from held, also a second Resolve and a Resolve after a Chargeback.
C15_ResolveNeverConsumed ==
    \A k \in 1..Applied :
        (res[k].type = "Resolve" /\ res[k].client \in DOMAIN hist[k]
           /\ AmountPlaces(k) # {} /\ DisputePlaces(k) # {}) =>
            /\ hist[k + 1][res[k].client].available
                  = hist[k][res[k].client].available + FirstAmount(k)
            /\ hist[k + 1][res[k].client].held
                  = hist[k][res[k].client].held - FirstAmount(k)

\* Record k is a Resolve that changed its account, and a record of type t
\* for the same (client, tx) changed the account before it.
ResolveAfter(t, k) ==
    /\ res[k].type = "Resolve"
    /\ hist[k + 1] # hist[k]
    /\ \E j \in 1..(k - 1) :
          /\ res[j].type = t
          /\ res[j].client = res[k].client
          /\ res[j].tx = res[k].tx
          /\ hist[j + 1] # hist[j]

\* C15's case: a Resolve has moved the amount after a Chargeback for the
\* same (client, tx) had been applied.
C15_Witness == \E k \in 1..Applied : ResolveAfter("Chargeback", k)

\* The records of client c, in their order.
OfClient(records, c) == SelectSeq(records, LAMBDA r : r.client = c)

\* The for loop of make_client_output_records has ended.
LoopEnded == (pc = "ledger" /\ i > Len(res)) \/ pc = "done"

\* C16: a record of client c changes no account but c's, and the final
\* account of c is the one the engine gives for the records of c alone.
C16_ClientsIndependent ==
    /\ \A k \in 1..Applied :
          /\ DOMAIN hist[k + 1] \subseteq DOMAIN hist[k] \cup {res[k].client}
          /\ \A d \in DOMAIN hist[k] \ {res[k].client} :
                d \in DOMAIN hist[k + 1] /\ hist[k + 1][d] = hist[k][d]
    /\ LoopEnded =>
          \A c \in {res[k].client : k \in 1..Len(res)} :
              LET alone == make_client_output_records(arith, OfClient(res, c))
              IN  /\ c \in DOMAIN output <=> c \in DOMAIN alone
                  /\ c \in DOMAIN output => output[c] = alone[c]

\* C16's case: the records of two clients alternate, both use the same tx,
\* and each account has been changed by a Dispute.
C16_Witness ==
    /\ pc = "done"
    /\ Len(res) = 4
    /\ \A k \in 1..3 : res[k].client # res[k + 1].client
    /\ \A k \in 1..4 : res[k].tx = res[1].tx
    /\ \A c \in DOMAIN output : output[c].held # 0
    /\ Cardinality(DOMAIN output) = 2

\* The records make_input_record gives for the trimmed rows, in their order.
RECURSIVE Validated(_, _)
Validated(mode, rows) ==
    IF rows = <<>> THEN <<>>
    ELSE LET made == make_input_record(mode, Trim(Head(rows)))
         IN  (IF made = None THEN <<>> ELSE <<Unwrap(made)>>)
                \o Validated(mode, Tail(rows))

\* C17: process_csv returns the records of the rows make_input_record
\* accepts, in source order; a rejected row adds no record and the reader
\* goes on after it; the accounts are those of the accepted rows alone.
C17_ReaderKeepsAcceptedRows ==
    /\ [](res = Validated(arith, input))
    /\ [](LoopEnded =>
            output = make_client_output_records(arith, Validated(arith, input)))
    /\ [][input' # input => pc' = "read"]_vars

\* C17's case: a rejected row stands between two accepted rows, and the
\* record of the row after it has been applied to an account.
C17_Witness ==
    /\ pc = "done"
    /\ Len(res) = 3
    /\ \E k \in 2..3 :
          /\ make_input_record(arith, Trim(input[k])) = None
          /\ make_input_record(arith, Trim(input[k + 1])) = Some(res[3])
    /\ hist[4] # hist[3]

\* C18: every kind of record changes its own fields only: a Dispute or
\* Resolve not total or locked, a Deposit or Withdrawal not held or locked,
\* a Chargeback not available; the client of an account is its key.
C18_FieldsOfEachKind ==
    /\ \A k \in 1..Applied :
          LET c == res[k].client
          IN  c \in DOMAIN hist[k] =>
                /\ res[k].type \in {"Dispute", "Resolve"} =>
                      /\ hist[k + 1][c].total = hist[k][c].total
                      /\ hist[k + 1][c].locked = hist[k][c].locked
                /\ res[k].type \in Monetary =>
                      /\ hist[k + 1][c].held = hist[k][c].held
                      /\ hist[k + 1][c].locked = hist[k][c].locked
                /\ res[k].type = "Chargeback" =>
                      hist[k + 1][c].available = hist[k][c].available
    /\ \A k \in 1..Len(hist) : \A d \in DOMAIN hist[k] : hist[k][d].client = d
    /\ \A k \in 1..Len(result) : \E d \in DOMAIN output : result[k] = output[d]

\* C18's case: a Chargeback has changed an account whose available a
\* Dispute had made other than 0 and other than total, and a Deposit came
\* after it.
C18_Witness ==
    \E j, k, m \in 1..Applied :
        /\ j < k /\ k < m
        /\ res[j].type = "Dispute" /\ res[k].type = "Chargeback"
        /\ res[m].type = "Deposit"
        /\ res[k].client = res[j].client /\ res[m].client = res[j].client
        /\ res[j].client \in DOMAIN hist[j]
        /\ hist[j + 1] # hist[j] /\ hist[k + 1] # hist[k]
        /\ hist[k][res[k].client].available # 0
        /\ hist[k][res[k].client].available # hist[k][res[k].client].total

----------------------------------------------------------------------------
(* The run on files of deposits and withdrawals *)

\* Deposit and Withdrawal rows only, for two clients: amounts 2, 0.1, an
\* infinite one and a negative one.
MonetaryRows ==
    { <<W_deposit, <<"1">>, <<"1">>, <<"2">>>>,
      <<W_deposit, <<"1">>, <<"2">>, W_inf>>,
      <<W_deposit, <<"1">>, <<"3">>, <<"-", "1">>>>,
      <<W_deposit, <<"2">>, <<"1">>, <<"0", ".", "1">>>>,
      <<W_withdrawal, <<"1">>, <<"4">>, <<"2">>>>,
      <<W_withdrawal, <<"1">>, <<"5">>, W_inf>>,
      <<W_withdrawal, <<"1">>, <<"6">>, <<"0", ".", "1">>>>,
      <<W_withdrawal, <<"2">>, <<"2">>, <<"0", ".", "1">>>>,
      <<W_withdrawal, <<"2">>, <<"3">>, <<>>>> }

\* One turn of the for loop of process_csv on such a file.
ReadMonetaryRow ==
    /\ pc = "read"
    /\ Len(input) < MaxRows
    /\ \E r \in MonetaryRows :
          LET made == make_input_record(arith, Trim(r))
          IN  /\ input' = Append(input, r)
              /\ res' = IF made = None THEN res ELSE Append(res, Unwrap(made))
    /\ UNCHANGED <<row, vresult, arith, pc, i, output, hist, result>>

NextMonetary == ReadMonetaryRow \/ StreamError \/ EndOfFile \/ Step \/ Collect

SpecMonetary == Init /\ [][NextMonetary]_vars

\* Every account, after every prefix of the records, has held = 0,
\* available >= 0, total >= 0 and locked = false.
NothingHeldNothingOwed ==
    \A k \in 1..Len(hist) : \A c \in DOMAIN hist[k] :
        /\ hist[k][c].held = 0
        /\ FLe(0, hist[k][c].available)
        /\ FLe(0, hist[k][c].total)
        /\ ~hist[k][c].locked

\* C19: for a sequence of Deposit and Withdrawal records with non-negative
\* amounts only, after every prefix every account has held = 0,
\* available >= 0, total >= 0 and locked = false.
C19_DepositsAndWithdrawalsStayNonNegative ==
    (\A k \in 1..Len(res) :
        res[k].type \in Monetary /\ FLe(0, Unwrap(res[k].amount)))
      => NothingHeldNothingOwed

\* The same for finite amounts.
FiniteDepositsAndWithdrawalsStayNonNegative ==
    (\A k \in 1..Len(res) :
        /\ res[k].type \in Monetary
        /\ FLe(0, Unwrap(res[k].amount))
        /\ IsFinite(Unwrap(res[k].amount)))
      => NothingHeldNothingOwed

====
